---------------------------- MODULE Spec2Model ----------------------------
(***************************************************************************)
(* A model of the runsvdir reconciler (Stepper::invoke in src/stepper.rs,  *)
(* the same pass as step in src/step.rs and src/main.rs) together with its *)
(* environment: the service directory, which changes at any time, and the  *)
(* spawned children, which exit at any time.                               *)
(*                                                                         *)
(* A pass is a sequence of steps (list the root, one step per listed       *)
(* entry, then HashMap::retain: per tracked entry an optional kill and a   *)
(* try_wait, then return); the environment's actions interleave with them. *)
(* The variables below the line "history" record what the current (or the  *)
(* last) pass did; the code does not read them.                            *)
(***************************************************************************)
EXTENDS Integers, Sequences, FiniteSets, TLC

\* ---------------------------------------------------------------- bounds
\* Service subdirectories that may exist under the root: names 1..NumDirs.
NumDirs == 2
\* Children the host lets the supervisor spawn in a run; further spawns fail.
MaxSpawns == 2

\* Longest path and longest file content fingerprinted on their own.
MaxBytes == 2
\* Most read calls whose result is chosen while a file is fingerprinted.
MaxReads == 2

Dirs == 1..NumDirs
\* The contents a run file may have: an old and a new version of a script.
Contents == {<<1>>, <<2>>}
Pids == 1..MaxSpawns

\* ------------------------------------------------------------- variables
VARIABLES
    dirs,       \* filesystem: the subdirectories of the root that exist
    runs,       \* filesystem: [d \in dirs that hold a readable run |-> its bytes]
    proc,       \* OS: [pid |-> "running" | "exited" (zombie) | "reaped"]
    running,    \* Stepper.running: [digest |-> pid of the Child]
    pc,         \* position of the reconciler: "idle" | "scan" | "retain" | "done"
    todo,       \* listed entries the for loop has not processed yet
    cur,        \* the pass's desired set (HashSet cur)
    visit,      \* keys HashMap::retain has not visited yet
    cursor,     \* the stale key retain's closure has signaled and not yet
                \* exit-checked (NoKey: the closure is not between the two)
    \* ---- history of the pass in progress (or just returned)
    result,     \* what the pass returned: "none" (not yet) | "Ok" | "ReadDir"
    listed,     \* read_dir of the root in this pass: "none" | "ok" | "err"
    start,      \* running as it was when the pass began
    zombies,    \* pids that had exited, unreaped, when the pass began
    outcome,    \* [entry processed |-> [res, hash, pid]]: how its closure ended,
                \* the fingerprint computed (<<>>: none), the child found or
                \* spawned under it (0: none)
    spawned,    \* pids spawned in this pass
    signaled,   \* pids sent SIGTERM in this pass
    killFailed, \* pids whose kill returned an error in this pass
    waited,     \* [pid exit-checked in this pass |-> "alive" | "dead" | "err"]
    \* ---- history of the last pass before this one that listed the root
    before,     \* [failed: the fingerprints whose spawn failed in it,
                \*  signaled: the pids it signaled and left in the map]
                \* (recorded by SleepRecord, in HistSpec only)
    \* ---- the fingerprint function on its own (ShashSpec only)
    fp          \* NoFp, then the file to fingerprint, then two fingerprints

fsVars == <<dirs, runs>>
passVars == <<pc, todo, cur, visit, cursor>>
histVars == <<result, listed, start, zombies, outcome, spawned, signaled, killFailed, waited>>
auxVars == <<before, fp>>
vars == <<dirs, runs, proc, running, pc, todo, cur, visit, cursor, result, listed,
          start, zombies, outcome, spawned, signaled, killFailed, waited, before, fp>>

\* ------------------------------------------------------------ finite maps
EmptyMap == [x \in {} |-> 0]
Put(m, k, v) == [x \in DOMAIN m \cup {k} |-> IF x = k THEN v ELSE m[x]]
Drop(m, k) == [x \in DOMAIN m \ {k} |-> m[x]]
Values(m) == {m[x] : x \in DOMAIN m}

\* No key: the value of cursor outside retain's closure; no digest.
NoKey == <<>>
\* The record of a pass that failed no spawn and signaled nothing.
NoPass == [failed |-> {}, signaled |-> {}]
\* No fingerprint computed yet.
NoFp == [at |-> "none"]

\* ------------------------------------------------------------ fingerprint
\* Width of usize in bytes.
UsizeBytes == 8
\* Byte i (1 = least significant) of n.
RECURSIVE ByteOf(_, _)
ByteOf(n, i) == IF i = 1 THEN n % 256 ELSE ByteOf(n \div 256, i - 1)
\* Mutant of ToNeBytes: the lengths are left out of the hashed bytes.
NoLength(n) == <<>>

\* usize::to_ne_bytes on a little-endian build.
ToNeBytes(n) == [i \in 1..UsizeBytes |-> ByteOf(n, i)]
\* The byte string Shash::try_from feeds the hasher for a readable file.
Frame(path, content) ==
    path \o <<0>> \o ToNeBytes(Len(path)) \o <<0>> \o content \o <<0>>
         \o ToNeBytes(Len(content))
\* SHA-256, idealised as collision-free: the digest stands for its input.
Sha256(bytes) == bytes
\* The root directory the Stepper was created for ("d").
RootDir == <<100>>
\* d.path() followed by p.push("run"): root '/' name '/' 'r' 'u' 'n'.
RunPath(d) == RootDir \o <<47, d, 47, 114, 117, 110>>
\* Shash::try_from(path): the file opens and reads, or the entry is skipped.
ShashTryFrom(d, files) ==
    IF d \in DOMAIN files
    THEN [ok |-> TRUE, hash |-> Sha256(Frame(RunPath(d), files[d])), path |-> RunPath(d)]
    ELSE [ok |-> FALSE, hash |-> <<>>, path |-> RunPath(d)]
\* hasher.update(bytes) and hasher.finalize(), the hasher being the bytes it
\* was fed.
Update(hasher, bytes) == hasher \o bytes
Finalize(hasher) == Sha256(hasher)
\* The size of the read buffer.
BufferLen == 1024
\* What a call of file.read can return: -1 an error other than Interrupted,
\* 0 the error Interrupted, n > 0 Ok with at most n bytes.
ReadResults == {-1, 0, 1, BufferLen}
Min(a, b) == IF a < b THEN a ELSE b
\* The read loop of Shash::try_from on the bytes `rest` still unread, the
\* results of the next reads being `reads` (then whole buffers): the digest,
\* or NoKey for a read error.
RECURSIVE ReadLoop(_, _, _, _)
ReadLoop(hasher, total, rest, reads) ==
    IF reads # <<>> /\ Head(reads) = -1 THEN NoKey
    ELSE IF reads # <<>> /\ Head(reads) = 0
         THEN ReadLoop(hasher, total, rest, Tail(reads))
    ELSE IF rest = <<>>
         THEN Finalize(Update(Update(hasher, <<0>>), ToNeBytes(total)))
    ELSE LET n == Min(Len(rest), IF reads = <<>> THEN BufferLen ELSE Head(reads))
         IN  ReadLoop(Update(hasher, SubSeq(rest, 1, n)), total + n,
                      SubSeq(rest, n + 1, Len(rest)),
                      IF reads = <<>> THEN <<>> ELSE Tail(reads))
\* Shash::try_from(path) on a file that opens, holding `content`.
TryFrom(path, content, reads) ==
    LET h0 == Update(Update(Update(Update(<<>>, path), <<0>>), ToNeBytes(Len(path))), <<0>>)
        digest == ReadLoop(h0, 0, content, reads)
    IN  [ok |-> digest # NoKey, hash |-> digest, path |-> path]
\* Mutant of ShashEq: equality derived over both fields.
ShashEqDerived(a, b) == a.hash = b.hash /\ a.path = b.path
\* impl PartialEq for Shash (and Hash): the digest alone.
ShashEq(a, b) == a.hash = b.hash

\* The fingerprints any filesystem state of the model can produce.
AllHashes == {Sha256(Frame(RunPath(d), c)) : d \in Dirs, c \in Contents}
\* The service subdirectory of the path a Shash was computed from (its path
\* field, which equality ignores).
DirOf(h) == CHOOSE d \in Dirs : \E c \in Contents : h = Sha256(Frame(RunPath(d), c))

\* ------------------------------------------------------------------- Init
\* Stepper::new: nothing is tracked; the directory is in any state.
Init ==
    /\ dirs \in SUBSET Dirs
    /\ runs \in UNION {[D -> Contents] : D \in SUBSET dirs}
    /\ proc = EmptyMap
    /\ running = EmptyMap
    /\ pc = "idle"
    /\ todo = {}
    /\ cur = {}
    /\ visit = {}
    /\ cursor = NoKey
    /\ result = "none"
    /\ listed = "none"
    /\ start = EmptyMap
    /\ zombies = {}
    /\ outcome = EmptyMap
    /\ spawned = {}
    /\ signaled = {}
    /\ killFailed = {}
    /\ waited = EmptyMap
    /\ before = NoPass
    /\ fp = NoFp

\* ------------------------------------------------------------ environment
\* The filesystem changes between passes. A change made while a pass runs
\* is covered by these: the pass looks at each entry once, so a change to an
\* entry it has not processed yet is to the pass a change made before it began
\* (a listed entry that vanishes is the fingerprint failure of EntryShashErr),
\* and a change to an entry it has processed, or has not listed, is to the
\* pass a change made after it returned.
FsMayChange == pc = "idle"
\* A child exits at any time until the pass has checked the last child; an
\* exit after that is to the pass an exit after it returned.
ChildMayExit == pc \in {"idle", "scan", "retain"}

\* A service subdirectory appears (without a run file yet).
MkDir(d) ==
    /\ FsMayChange
    /\ d \notin dirs
    /\ dirs' = dirs \cup {d}
    /\ UNCHANGED <<runs, auxVars, proc, running, passVars, histVars>>

\* A run file is created, or its content replaced.
WriteRun(d, c) ==
    /\ FsMayChange
    /\ d \in dirs
    /\ ~(d \in DOMAIN runs /\ runs[d] = c)
    /\ runs' = Put(runs, d, c)
    /\ UNCHANGED <<dirs, auxVars, proc, running, passVars, histVars>>

\* A run file is deleted (or made unreadable).
RemoveRun(d) ==
    /\ FsMayChange
    /\ d \in DOMAIN runs
    /\ runs' = Drop(runs, d)
    /\ UNCHANGED <<dirs, auxVars, proc, running, passVars, histVars>>

\* A service subdirectory is removed with what it holds.
RmDir(d) ==
    /\ FsMayChange
    /\ d \in dirs
    /\ dirs' = dirs \ {d}
    /\ runs' = Drop(runs, d)
    /\ UNCHANGED <<auxVars, proc, running, passVars, histVars>>

\* A child terminates (on its own, or because of a signal it received); it
\* stays a zombie until try_wait collects its status.
ChildExit(p) ==
    /\ ChildMayExit
    /\ p \in DOMAIN proc
    /\ proc[p] = "running"
    /\ proc' = [proc EXCEPT ![p] = "exited"]
    /\ UNCHANGED <<fsVars, auxVars, running, passVars, histVars>>

\* ------------------------------------------------------- the pass: listing
\* read_dir(self.dir) succeeds: the for loop will see the entries that exist.
ReadDirOk ==
    /\ pc = "idle"
    /\ start' = running
    /\ zombies' = {p \in DOMAIN proc : proc[p] = "exited"}
    /\ listed' = "ok"
    /\ todo' = dirs
    /\ pc' = "scan"
    /\ UNCHANGED <<fsVars, auxVars, proc, running, cur, visit, cursor, result, outcome, spawned,
                   signaled, killFailed, waited>>

\* Mutant of ReadDirErr: a failed listing is taken for an empty directory and
\* the pass goes on to retain.
ReadDirErrAsEmpty ==
    /\ pc = "idle"
    /\ start' = running
    /\ zombies' = {p \in DOMAIN proc : proc[p] = "exited"}
    /\ listed' = "err"
    /\ todo' = {}
    /\ pc' = "scan"
    /\ UNCHANGED <<fsVars, auxVars, proc, running, cur, visit, cursor, result, outcome, spawned,
                   signaled, killFailed, waited>>

\* read_dir(self.dir) fails: `?` returns StepError::ReadDir at once.
ReadDirErr ==
    /\ pc = "idle"
    /\ start' = running
    /\ zombies' = {p \in DOMAIN proc : proc[p] = "exited"}
    /\ listed' = "err"
    /\ result' = "ReadDir"
    /\ pc' = "done"
    /\ UNCHANGED <<fsVars, auxVars, proc, running, todo, cur, visit, cursor, outcome, spawned,
                   signaled, killFailed, waited>>

\* ------------------------------------------------- the pass: one entry each
\* Mutant of Vacant: the lookup is skipped and every fingerprint is spawned.
VacantAlways(m, h) == TRUE

\* Mutant of Vacant: an entry whose child has exited counts as vacant, so the
\* fingerprint is spawned again at once.
VacantOrExited(m, h) == ~(h \in DOMAIN m /\ proc[m[h]] # "exited")

\* Entry::Vacant(e) = self.running.entry(hash.clone())
Vacant(m, h) == h \notin DOMAIN m

\* Mutant of SkipEntry: the entry's error leaves the pass (`?` outside the closure).
SkipEntryReturn(d, kind, h) ==
    /\ outcome' = Put(outcome, d, [res |-> kind, hash |-> h, pid |-> 0])
    /\ result' = kind
    /\ pc' = "done"
    /\ UNCHANGED <<fsVars, auxVars, proc, running, todo, cur, visit, cursor, listed, start,
                   zombies, spawned, signaled, killFailed, waited>>

\* Mutant of SkipEntry: the entry's error ends the loop (a break).
SkipEntryBreak(d, kind, h) ==
    /\ outcome' = Put(outcome, d, [res |-> kind, hash |-> h, pid |-> 0])
    /\ todo' = {}
    /\ UNCHANGED <<fsVars, auxVars, proc, running, pc, cur, visit, cursor, result, listed,
                   start, zombies, spawned, signaled, killFailed, waited>>

\* Mutant of SkipEntry: the fingerprint joins the desired set before the
\* spawn is tried (cur.insert moved up), so a failed spawn leaves it there.
SkipEntryInsert(d, kind, h) ==
    /\ outcome' = Put(outcome, d, [res |-> kind, hash |-> h, pid |-> 0])
    /\ cur' = IF h = NoKey THEN cur ELSE cur \cup {h}
    /\ todo' = todo \ {d}
    /\ UNCHANGED <<fsVars, auxVars, proc, running, pc, visit, cursor, result, listed,
                   start, zombies, spawned, signaled, killFailed, waited>>

\* The closure f returned Err(kind): the error is logged and the loop goes on
\* with the next entry. h: the fingerprint the closure had computed, if any.
SkipEntry(d, kind, h) ==
    /\ outcome' = Put(outcome, d, [res |-> kind, hash |-> h, pid |-> 0])
    /\ todo' = todo \ {d}
    /\ UNCHANGED <<fsVars, auxVars, proc, running, pc, cur, visit, cursor, result, listed,
                   start, zombies, spawned, signaled, killFailed, waited>>

\* Mutant of KeepEntry: the spawned Child is not stored in the map.
KeepEntryNoInsert(d, kind, h, m, sp) ==
    /\ running' = running
    /\ proc' = [p \in DOMAIN proc \cup sp |-> IF p \in sp THEN "running" ELSE proc[p]]
    /\ spawned' = spawned \cup sp
    /\ cur' = cur \cup {h}
    /\ outcome' = Put(outcome, d, [res |-> kind, hash |-> h, pid |-> m[h]])
    /\ todo' = todo \ {d}
    /\ UNCHANGED <<fsVars, auxVars, pc, visit, cursor, result, listed, start, zombies, signaled,
                   killFailed, waited>>

\* Mutant of KeepEntry: a spawn first signals the children tracked for the
\* same run path under another fingerprint (the old version is replaced).
KeepEntryReplace(d, kind, h, m, sp) ==
    /\ running' = m
    /\ proc' = [p \in DOMAIN proc \cup sp |-> IF p \in sp THEN "running" ELSE proc[p]]
    /\ spawned' = spawned \cup sp
    /\ signaled' = IF sp = {} THEN signaled
                   ELSE signaled \cup {running[k] : k \in {x \in DOMAIN running : DirOf(x) = d}}
    /\ cur' = cur \cup {h}
    /\ outcome' = Put(outcome, d, [res |-> kind, hash |-> h, pid |-> m[h]])
    /\ todo' = todo \ {d}
    /\ UNCHANGED <<fsVars, auxVars, pc, visit, cursor, result, listed, start, zombies,
                   killFailed, waited>>

\* The closure f returned Ok: the fingerprint joins the desired set.
\* m: the map after the entry lookup; sp: the pids it spawned.
KeepEntry(d, kind, h, m, sp) ==
    /\ running' = m
    /\ proc' = [p \in DOMAIN proc \cup sp |-> IF p \in sp THEN "running" ELSE proc[p]]
    /\ spawned' = spawned \cup sp
    /\ cur' = cur \cup {h}
    /\ outcome' = Put(outcome, d, [res |-> kind, hash |-> h, pid |-> m[h]])
    /\ todo' = todo \ {d}
    /\ UNCHANGED <<fsVars, auxVars, pc, visit, cursor, result, listed, start, zombies, signaled,
                   killFailed, waited>>

\* The directory iterator yields Err for this entry.
EntryReadErr(d) ==
    /\ pc = "scan"
    /\ d \in todo
    /\ SkipEntry(d, "ReadDirEntry", <<>>)

\* Shash::try_from fails: no run file to open, or (whatever the file) a read
\* error other than Interrupted.
EntryShashErr(d) ==
    /\ pc = "scan"
    /\ d \in todo
    /\ SkipEntry(d, "Shash", <<>>)

\* The fingerprint is new to the map and the spawn succeeds.
EntrySpawn(d) ==
    /\ pc = "scan"
    /\ d \in todo
    /\ LET s == ShashTryFrom(d, runs)
           p == Cardinality(DOMAIN proc) + 1
       IN  /\ s.ok
           /\ Vacant(running, s.hash)
           /\ p <= MaxSpawns
           /\ KeepEntry(d, "spawn", s.hash, Put(running, s.hash, p), {p})

\* The fingerprint is new to the map and the spawn fails.
EntrySpawnErr(d) ==
    /\ pc = "scan"
    /\ d \in todo
    /\ LET s == ShashTryFrom(d, runs)
       IN  /\ s.ok
           /\ Vacant(running, s.hash)
           /\ SkipEntry(d, "Spawn", s.hash)

\* The fingerprint is in the map already: nothing is spawned.
EntryPresent(d) ==
    /\ pc = "scan"
    /\ d \in todo
    /\ LET s == ShashTryFrom(d, runs)
       IN  /\ s.ok
           /\ ~Vacant(running, s.hash)
           /\ KeepEntry(d, "present", s.hash, running, {})

\* ------------------------------------------------------- the pass: retain
\* The for loop is over; self.running.retain(..) starts over the keys.
BeginRetain ==
    /\ pc = "scan"
    /\ todo = {}
    /\ visit' = DOMAIN running
    /\ pc' = "retain"
    /\ UNCHANGED <<fsVars, auxVars, proc, running, todo, cur, cursor, histVars>>

\* Mutant of Stale: every key is taken for stale.
StaleAlways(c, h) == TRUE

\* Mutant of Stale: the test is inverted.
StaleInverted(c, h) == h \in c

\* !cur.contains(hash)
Stale(c, h) == h \notin c

\* Mutant of TryWait: child.wait(), which returns only when the child has
\* exited.
WaitBlocking(st) == IF st = "exited" THEN {"dead", "err"} ELSE {}

\* What child.try_wait() can return for a child in OS state st.
TryWait(st) == IF st = "exited" THEN {"dead", "err"} ELSE {"alive", "err"}

\* Mutant of Keep: no entry is ever dropped.
KeepAlways(w) == TRUE

\* Mutant of Keep: an entry whose try_wait failed is dropped like a dead one.
KeepOnlyAlive(w) == w = "alive"

\* What retain's closure returns for a try_wait result: true keeps the entry.
Keep(w) == w # "dead"

\* Mutant of Signal: the supervisor escalates to a forced kill.
SignalKill == "SIGKILL"

\* The signal retain's closure sends: Signal::SIGTERM.
Signal == "SIGTERM"

\* What the OS makes of a process in state st when signal sig is delivered to
\* it: SIGKILL ends a running process; SIGTERM is left to the process, which
\* exits because of it (ChildExit) when and if it chooses to.
Deliver(sig, st) == IF sig = "SIGKILL" /\ st = "running" THEN "exited" ELSE st

\* Mutant of Kill: a failed kill ends the closure (return true): the entry is
\* kept and its try_wait is skipped.
KillErrSkipsWait(h, ok) ==
    /\ pc = "retain"
    /\ cursor = NoKey
    /\ h \in visit
    /\ Stale(cur, h)
    /\ signaled' = signaled \cup {running[h]}
    /\ killFailed' = IF ok THEN killFailed ELSE killFailed \cup {running[h]}
    /\ proc' = IF ok THEN [proc EXCEPT ![running[h]] = Deliver(Signal, @)] ELSE proc
    /\ cursor' = IF ok THEN h ELSE NoKey
    /\ visit' = IF ok THEN visit ELSE visit \ {h}
    /\ UNCHANGED <<fsVars, auxVars, running, pc, todo, cur, result, listed,
                   start, zombies, outcome, spawned, waited>>

\* retain's closure on a stale key, first half: kill(pid, SIGTERM). ok: the
\* result of kill, which is only logged.
Kill(h, ok) ==
    /\ pc = "retain"
    /\ cursor = NoKey
    /\ h \in visit
    /\ Stale(cur, h)
    /\ signaled' = signaled \cup {running[h]}
    /\ killFailed' = IF ok THEN killFailed ELSE killFailed \cup {running[h]}
    /\ proc' = IF ok THEN [proc EXCEPT ![running[h]] = Deliver(Signal, @)] ELSE proc
    /\ cursor' = h
    /\ UNCHANGED <<fsVars, auxVars, running, pc, todo, cur, visit, result, listed,
                   start, zombies, outcome, spawned, waited>>

\* kill returns Ok.
KillOk(h) == Kill(h, TRUE)

\* kill returns Err: the error is logged and the closure goes on.
KillErr(h) == Kill(h, FALSE)

\* Mutant of Ready: try_wait does not wait for the stale key's kill.
ReadyUnsignaled(c, h, stale) == c = NoKey

\* retain's closure may go on to try_wait on key h: a stale key has had its
\* kill, another key has no kill to wait for.
Ready(c, h, stale) == IF stale THEN c = h ELSE c = NoKey

\* retain's closure on one key, second half: try_wait (w: its result), which
\* collects the status of an exited child, and the answer that keeps or drops
\* the entry.
Visit(h, w) ==
    /\ pc = "retain"
    /\ h \in visit
    /\ Ready(cursor, h, Stale(cur, h))
    /\ w \in TryWait(proc[running[h]])
    /\ waited' = Put(waited, running[h], w)
    /\ proc' = IF w = "dead" THEN [proc EXCEPT ![running[h]] = "reaped"] ELSE proc
    /\ running' = IF Keep(w) THEN running ELSE Drop(running, h)
    /\ visit' = visit \ {h}
    /\ cursor' = NoKey
    /\ UNCHANGED <<fsVars, auxVars, pc, todo, cur, result, listed, start, zombies, outcome,
                   spawned, signaled, killFailed>>

\* try_wait returns Ok(None): the child has not exited.
VisitAlive(h) == Visit(h, "alive")

\* try_wait returns Ok(Some(status)): the child has exited.
VisitDead(h) == Visit(h, "dead")

\* try_wait returns Err.
VisitErr(h) == Visit(h, "err")

\* retain is over: Ok(()).
Return ==
    /\ pc = "retain"
    /\ visit = {}
    /\ result' = "Ok"
    /\ pc' = "done"
    /\ UNCHANGED <<fsVars, auxVars, proc, running, todo, cur, visit, cursor, listed, start,
                   zombies, outcome, spawned, signaled, killFailed, waited>>

\* What a pass that has returned leaves for the record of earlier passes.
Record ==
    IF listed = "ok"
    THEN [failed |-> {outcome[d].hash : d \in {e \in DOMAIN outcome : outcome[e].res = "Spawn"}},
          signaled |-> signaled \cap Values(running)]
    ELSE before

\* The caller has the pass's result and waits for the next pass (the driver's
\* thread::sleep); the pass's locals and its record are gone. b: what is kept
\* of the pass for the claims about consecutive passes.
Pause(b) ==
    /\ pc = "done"
    /\ pc' = "idle"
    /\ cur' = {}
    /\ result' = "none"
    /\ listed' = "none"
    /\ start' = EmptyMap
    /\ zombies' = {}
    /\ outcome' = EmptyMap
    /\ spawned' = {}
    /\ signaled' = {}
    /\ killFailed' = {}
    /\ waited' = EmptyMap
    /\ before' = b
    /\ UNCHANGED <<fsVars, fp, proc, running, todo, visit, cursor>>

\* The driver's sleep, nothing kept.
Sleep == Pause(before)

\* The driver's sleep, the pass's spawn failures and signals kept.
SleepRecord == Pause(Record)

\* ------------------------------------------------------------------- Next
Next ==
    \/ \E d \in Dirs : MkDir(d)
    \/ \E d \in Dirs, c \in Contents : WriteRun(d, c)
    \/ \E d \in Dirs : RemoveRun(d)
    \/ \E d \in Dirs : RmDir(d)
    \/ \E p \in Pids : ChildExit(p)
    \/ ReadDirOk
    \/ ReadDirErr
    \/ \E d \in Dirs : EntryReadErr(d)
    \/ \E d \in Dirs : EntryShashErr(d)
    \/ \E d \in Dirs : EntrySpawn(d)
    \/ \E d \in Dirs : EntrySpawnErr(d)
    \/ \E d \in Dirs : EntryPresent(d)
    \/ BeginRetain
    \/ \E h \in AllHashes : KillOk(h)
    \/ \E h \in AllHashes : KillErr(h)
    \/ \E h \in AllHashes : VisitAlive(h)
    \/ \E h \in AllHashes : VisitDead(h)
    \/ \E h \in AllHashes : VisitErr(h)
    \/ Return
    \/ Sleep

Spec == Init /\ [][Next]_vars

\* ------------------------------------------------- consecutive passes
\* The same program, with each pass's spawn failures and signals kept for the
\* next pass to be compared with.
HistNext ==
    \/ \E d \in Dirs : MkDir(d)
    \/ \E d \in Dirs, c \in Contents : WriteRun(d, c)
    \/ \E d \in Dirs : RemoveRun(d)
    \/ \E d \in Dirs : RmDir(d)
    \/ \E p \in Pids : ChildExit(p)
    \/ ReadDirOk
    \/ ReadDirErr
    \/ \E d \in Dirs : EntryReadErr(d)
    \/ \E d \in Dirs : EntryShashErr(d)
    \/ \E d \in Dirs : EntrySpawn(d)
    \/ \E d \in Dirs : EntrySpawnErr(d)
    \/ \E d \in Dirs : EntryPresent(d)
    \/ BeginRetain
    \/ \E h \in AllHashes : KillOk(h)
    \/ \E h \in AllHashes : KillErr(h)
    \/ \E h \in AllHashes : VisitAlive(h)
    \/ \E h \in AllHashes : VisitDead(h)
    \/ \E h \in AllHashes : VisitErr(h)
    \/ Return
    \/ SleepRecord

HistSpec == Init /\ [][HistNext]_vars

\* ------------------------------------------------- the fingerprint alone
\* The bytes of the paths and contents fingerprinted on their own.
Bytes == {0, 1}
ByteStrings == UNION {[1..n -> Bytes] : n \in 0..MaxBytes}
ReadSeqs == UNION {[1..n -> ReadResults] : n \in 0..MaxReads}

\* A file to fingerprint is named: its path and what it holds.
Pick(p1, c1) ==
    /\ fp = NoFp
    /\ fp' = [at |-> "picked", a |-> <<p1, c1>>]
    /\ UNCHANGED <<fsVars, before, proc, running, passVars, histVars>>

\* The file and a second one are fingerprinted, each with reads that fill the
\* buffer.
Fingerprint(p2, c2) ==
    /\ fp.at = "picked"
    /\ fp' = [at |-> "done", a |-> fp.a, b |-> <<p2, c2>>,
              sa |-> TryFrom(fp.a[1], fp.a[2], <<>>), sb |-> TryFrom(p2, c2, <<>>)]
    /\ UNCHANGED <<fsVars, before, proc, running, passVars, histVars>>

\* The file is fingerprinted twice: with the given results of its reads, and
\* with reads that fill the buffer.
FingerprintAgain(reads) ==
    /\ fp.at = "picked"
    /\ fp' = [at |-> "done", a |-> fp.a, b |-> fp.a,
              sa |-> TryFrom(fp.a[1], fp.a[2], reads), sb |-> TryFrom(fp.a[1], fp.a[2], <<>>)]
    /\ UNCHANGED <<fsVars, before, proc, running, passVars, histVars>>

\* Two fingerprints have been computed.
Fingerprinted == fp.at = "done"

ShashInit == Init /\ dirs = {}

ShashNext ==
    \/ \E p1 \in ByteStrings, c1 \in ByteStrings : Pick(p1, c1)
    \/ \E p2 \in ByteStrings, c2 \in ByteStrings : Fingerprint(p2, c2)
    \/ \E reads \in ReadSeqs : FingerprintAgain(reads)

ShashSpec == ShashInit /\ [][ShashNext]_vars

\* ------------------------------------------------- the driver's loop
\* The reconciler's own steps: the loop of main, a pass and a sleep in turn.
Step ==
    \/ ReadDirOk
    \/ ReadDirErr
    \/ \E d \in Dirs : EntryReadErr(d)
    \/ \E d \in Dirs : EntryShashErr(d)
    \/ \E d \in Dirs : EntrySpawn(d)
    \/ \E d \in Dirs : EntrySpawnErr(d)
    \/ \E d \in Dirs : EntryPresent(d)
    \/ BeginRetain
    \/ \E h \in AllHashes : KillOk(h)
    \/ \E h \in AllHashes : KillErr(h)
    \/ \E h \in AllHashes : VisitAlive(h)
    \/ \E h \in AllHashes : VisitDead(h)
    \/ \E h \in AllHashes : VisitErr(h)
    \/ Return
    \/ Sleep

\* The loop over a directory that stays as it is, with children that exit
\* when they choose to, or never.
LoopNext == Step \/ \E p \in Pids : ChildExit(p)

\* The supervisor is a running thread: whenever it has a step to take it
\* takes one. Nothing is assumed of the children.
LoopSpec == Init /\ [][LoopNext]_vars /\ WF_vars(Step)

\* ------------------------------------------------------------ well-formed
TypeOK ==
    /\ dirs \subseteq Dirs
    /\ DOMAIN runs \subseteq dirs
    /\ \A d \in DOMAIN runs : runs[d] \in Contents
    /\ DOMAIN proc \subseteq Pids
    /\ DOMAIN running \subseteq AllHashes
    /\ Values(running) \subseteq DOMAIN proc
    /\ pc \in {"idle", "scan", "retain", "done"}
    /\ visit \subseteq DOMAIN running
    /\ cursor \in visit \cup {NoKey}
    /\ cur \subseteq AllHashes

\* ----------------------------------------------------------------- claims
\* The pass has returned (its record is still there).
Done == pc = "done"
\* The pass has returned, and had listed the root.
DoneListed == pc = "done" /\ listed = "ok"
\* The children that have not exited.
Live == {p \in DOMAIN proc : proc[p] = "running"}
\* The keys under which the map holds child p.
KeysOf(p) == {h \in DOMAIN running : running[h] = p}
\* The outcomes with which an entry's closure ends in Err.
Failures == {"ReadDirEntry", "Shash", "Spawn"}
\* The fingerprints of the run files that exist.
OnDisk == {ShashTryFrom(d, runs).hash : d \in DOMAIN runs}

\* Every live child is held by the map, under exactly one key.
C1_LiveTracked == \A p \in Live : Cardinality(KeysOf(p)) = 1
\* A step never replaces the child of a key that stays in the map.
C1_NoRespawn ==
    \A h \in DOMAIN running : h \in DOMAIN running' => running'[h] = running[h]
\* C1: at most one live child per fingerprint. A child is spawned for a
\* fingerprint only into a vacant entry and is then the entry's value, so:
\* every live child is held by the map under exactly one key, and no child is
\* spawned for a fingerprint while its entry is in the map.
C1_OneLivePerFingerprint == [](C1_LiveTracked) /\ [][C1_NoRespawn]_vars
\* A pass found a tracked fingerprint again, left its live child in place and
\* spawned nothing for it.
C1_Witness ==
    /\ DoneListed
    /\ \E d \in DOMAIN outcome :
        /\ outcome[d].res = "present"
        /\ outcome[d].hash \in DOMAIN running
        /\ running[outcome[d].hash] \in Live
        /\ running[outcome[d].hash] \notin spawned

\* C2: every child that was spawned and whose exit try_wait has not reported
\* is a value of the map; an entry leaves the map only when try_wait reported
\* the exit.
C2_UnreapedTracked ==
    /\ \A p \in DOMAIN proc : proc[p] # "reaped" => p \in Values(running)
    /\ \A p \in Values(start) \cup spawned :
           p \notin Values(running) => (p \in DOMAIN waited /\ waited[p] = "dead")
\* A pass met a child whose try_wait failed, and one that had exited, and
\* dropped only the latter.
C2_Witness ==
    /\ Done
    /\ \E p \in DOMAIN waited : waited[p] = "err" /\ p \in Values(running)
    /\ \E p \in DOMAIN waited : waited[p] = "dead" /\ p \notin Values(running)

\* C3: a pass whose listing of the root fails returns ReadDir, leaves the map
\* as it was and spawns, signals and exit-checks nothing.
C3_ReadDirFailureLeavesMap ==
    listed = "err" =>
        /\ pc = "done"
        /\ result = "ReadDir"
        /\ running = start
        /\ outcome = EmptyMap
        /\ spawned = {}
        /\ signaled = {}
        /\ waited = EmptyMap
\* The listing failed with children tracked, one of them already exited.
C3_Witness ==
    /\ Done
    /\ listed = "err"
    /\ Cardinality(DOMAIN running) = 2
    /\ \E h \in DOMAIN running : proc[running[h]] = "exited"

\* C4: a pass returns an error exactly when the listing of the root failed,
\* whatever failed for its entries and its children.
C4_ErrorIffListingFailed ==
    /\ pc = "done" => (result # "Ok" <=> listed = "err")
    /\ pc = "done" => result \in {"Ok", "ReadDir"}
    /\ pc # "done" => result = "none"
\* A pass returned Ok after a spawn failure, another entry's failure, a kill
\* failure and a try_wait failure.
C4_Witness ==
    /\ Done
    /\ result = "Ok"
    /\ \E d \in DOMAIN outcome : outcome[d].res = "Spawn"
    /\ \E d \in DOMAIN outcome : outcome[d].res \in {"ReadDirEntry", "Shash"}
    /\ killFailed # {}
    /\ \E p \in DOMAIN waited : waited[p] = "err"

\* The entries whose closure ended in Ok, and those whose closure ended in Err.
OkEntries == {d \in DOMAIN outcome : outcome[d].res \in {"spawn", "present"}}
FailedEntries == {d \in DOMAIN outcome : outcome[d].res \in Failures}
\* Entry d's child is where the pass left it: in the map under d's
\* fingerprint, or out of it because try_wait reported its exit.
TrackedOrReaped(d) ==
    \/ /\ outcome[d].hash \in DOMAIN running
       /\ running[outcome[d].hash] = outcome[d].pid
    \/ /\ outcome[d].pid \in DOMAIN waited
       /\ waited[outcome[d].pid] = "dead"
       /\ outcome[d].hash \notin DOMAIN running

\* C5 as claimed: with one failing entry, every other entry ends in the
\* desired set and in the tracked map, and the failing one in neither.
C5_Original ==
    (DoneListed /\ Cardinality(FailedEntries) = 1) =>
        /\ DOMAIN outcome = dirs
        /\ \A d \in OkEntries :
               outcome[d].hash \in cur /\ outcome[d].hash \in DOMAIN running
        /\ \A d \in FailedEntries : outcome[d].hash \notin cur \cup DOMAIN running
\* C5, amended: every listed entry is processed whatever failed before it;
\* the desired set holds exactly the fingerprints of the entries that did not
\* fail; each of those is spawned exactly if it was not tracked, and is in the
\* map after the pass unless the pass's try_wait reported its child's exit; a
\* failing entry adds nothing to the desired set or to the map.
C5_FailuresIsolated ==
    DoneListed =>
        /\ DOMAIN outcome = dirs
        /\ cur = {outcome[d].hash : d \in OkEntries}
        /\ spawned = {outcome[d].pid : d \in {e \in OkEntries : outcome[e].res = "spawn"}}
        /\ \A d \in OkEntries :
               /\ outcome[d].res = "spawn" <=> outcome[d].hash \notin DOMAIN start
               /\ TrackedOrReaped(d)
        /\ \A d \in FailedEntries : outcome[d].hash \notin cur \cup DOMAIN running
        /\ DOMAIN running \subseteq DOMAIN start \cup cur
\* One entry failed, the other was fingerprinted, spawned and is tracked.
C5_Witness ==
    /\ DoneListed
    /\ Cardinality(FailedEntries) = 1
    /\ \E d \in OkEntries :
        /\ outcome[d].res = "spawn"
        /\ outcome[d].hash \in DOMAIN running
        /\ running[outcome[d].hash] \in Live

\* Every tracked child is still running when the pass has returned.
AllStillRunning == \A h \in DOMAIN start : proc[start[h]] = "running"

\* C6 as claimed: a pass that begins with the map as a pass over the same
\* filesystem leaves it (the tracked fingerprints are exactly those of the run
\* files on disk), so that every desired identity is tracked already, and
\* whose processes are still running, leaves the keys as they were, spawns
\* nothing and signals nothing.
C6_Original ==
    (Done /\ result = "Ok" /\ OnDisk = DOMAIN start /\ AllStillRunning) =>
        /\ DOMAIN running = DOMAIN start
        /\ spawned = {}
        /\ signaled = {}
\* C6, amended: when the pass's desired set is exactly the set of tracked
\* fingerprints and the processes are still running, the pass leaves the map
\* as it was, spawns nothing and signals nothing.
C6_IdempotentPass ==
    (Done /\ result = "Ok" /\ cur = DOMAIN start /\ AllStillRunning) =>
        /\ running = start
        /\ spawned = {}
        /\ signaled = {}
\* A pass over two tracked, running services whose run files are on disk
\* unchanged: it changed nothing.
C6_Witness ==
    /\ Done
    /\ result = "Ok"
    /\ OnDisk = DOMAIN start
    /\ Cardinality(DOMAIN start) = 2
    /\ cur = DOMAIN start
    /\ AllStillRunning
    /\ running = start

\* The run files on disk whose fingerprint was not tracked when the pass began.
NewOnDisk == OnDisk \ DOMAIN start
\* The pass met exactly one new fingerprint, and fingerprinted and spawned it.
OneNewEntry ==
    /\ DoneListed
    /\ Cardinality(NewOnDisk) = 1
    /\ \E d \in DOMAIN outcome :
           outcome[d].res = "spawn" /\ outcome[d].hash \in NewOnDisk

\* C7 as claimed: one new entry gives one spawned process and one new key.
C7_Original ==
    OneNewEntry =>
        /\ Cardinality(spawned) = 1
        /\ DOMAIN running \ DOMAIN start = NewOnDisk
\* C7, amended: one new entry gives exactly one spawned process, and exactly
\* one new key, its fingerprint, unless the pass's try_wait reported that the
\* new process had exited already: then the pass leaves no new key.
C7_NewEntry ==
    OneNewEntry =>
        /\ Cardinality(spawned) = 1
        /\ DOMAIN running \ DOMAIN start \subseteq NewOnDisk
        /\ \A d \in DOMAIN outcome :
               outcome[d].res = "spawn" =>
                   /\ spawned = {outcome[d].pid}
                   /\ TrackedOrReaped(d)
\* One service was tracked, a second one appeared: one spawn, one new key.
C7_Witness ==
    /\ OneNewEntry
    /\ Cardinality(DOMAIN start) = 1
    /\ Cardinality(DOMAIN running) = 2
    /\ Cardinality(spawned) = 1

\* The tracked children whose fingerprint is not in the pass's desired set.
StaleChildren == {start[h] : h \in DOMAIN start \ cur}

\* C8: a pass that listed the root signals exactly the tracked children whose
\* fingerprint is not in its desired set: never another one while it runs,
\* all of them when it has returned, and never a child it spawned itself.
C8_SignalIffNotDesired ==
    listed = "ok" =>
        /\ signaled \subseteq StaleChildren
        /\ pc = "done" => signaled = StaleChildren
        /\ signaled \cap spawned = {}
\* A pass in which a fingerprint failed signaled a tracked child and left
\* alone another one, whose fingerprint it had found again.
C8_Witness ==
    /\ DoneListed
    /\ \E d \in DOMAIN outcome : outcome[d].res = "Shash"
    /\ signaled # {}
    /\ \E h \in DOMAIN start \cap cur : start[h] \notin signaled

\* C9: a tracked fingerprint whose run file is gone or changed is signaled by
\* the next pass that lists the root; and one whose process had exited before
\* a pass, that is not desired in it and whose try_wait does not fail in it,
\* is not in the map when that pass has returned.
C9_StaleSignaledThenRemoved ==
    DoneListed =>
        \A h \in DOMAIN start :
            /\ h \notin OnDisk => start[h] \in signaled
            /\ (start[h] \in zombies /\ h \notin cur /\ waited[start[h]] # "err")
                   => h \notin DOMAIN running
\* One pass signaled a stale child that still runs and keeps its entry, and
\* dropped the entry of a stale child that had exited before the pass.
C9_Witness ==
    /\ DoneListed
    /\ \E h \in DOMAIN start :
        /\ h \notin OnDisk
        /\ start[h] \in signaled
        /\ waited[start[h]] = "alive"
        /\ h \in DOMAIN running
    /\ \E h \in DOMAIN start :
        /\ h \notin OnDisk
        /\ start[h] \in zombies
        /\ start[h] \in signaled
        /\ h \notin DOMAIN running

\* C10 as claimed: a tracked fingerprint whose run file is on disk unchanged
\* and whose process has not exited is not signaled and stays in the map.
C10_Original ==
    DoneListed =>
        \A h \in DOMAIN start :
            (h \in OnDisk /\ proc[start[h]] = "running") =>
                (start[h] \notin signaled /\ h \in DOMAIN running)
\* C10, amended: a tracked fingerprint that the pass finds again (its entry is
\* read and fingerprinted without failure, with path and content unchanged),
\* or that belongs to a pass that could not list the root, is not signaled,
\* and stays in the map with the same child if its process has not exited.
C10_DesiredStays ==
    Done =>
        \A h \in DOMAIN start :
            (listed = "err" \/ h \in cur) =>
                /\ start[h] \notin signaled
                /\ proc[start[h]] = "running" =>
                       (h \in DOMAIN running /\ running[h] = start[h])
\* A pass signaled one tracked child and left alone the running child of a
\* fingerprint it found again.
C10_Witness ==
    /\ DoneListed
    /\ signaled # {}
    /\ \E h \in DOMAIN start \cap cur :
        /\ h \in OnDisk
        /\ proc[start[h]] = "running"
        /\ h \in DOMAIN running

\* The entries whose spawn failed, and those whose spawn succeeded.
SpawnFailed == {d \in DOMAIN outcome : outcome[d].res = "Spawn"}
SpawnDone == {d \in DOMAIN outcome : outcome[d].res = "spawn"}

\* C11: a fingerprint whose spawn fails is not put in the map (nor in the
\* desired set) and gets no second spawn in the pass: the pass's children are
\* those of the entries whose spawn succeeded, one each. The next pass that
\* lists the root and fingerprints the entry again tries the spawn again,
\* whatever failed before.
C11_SpawnFailureRetried ==
    DoneListed =>
        /\ \A d \in SpawnFailed :
               /\ outcome[d].hash \notin DOMAIN running
               /\ outcome[d].hash \notin cur
               /\ outcome[d].pid = 0
        /\ spawned = {outcome[d].pid : d \in SpawnDone}
        /\ Cardinality(spawned) = Cardinality(SpawnDone)
        /\ \A d \in DOMAIN outcome :
               outcome[d].hash \in before.failed => outcome[d].res \in {"spawn", "Spawn"}
\* A spawn that failed in the last pass is tried again and succeeds, while
\* another spawn fails in this pass.
C11_Witness ==
    /\ DoneListed
    /\ \E d \in SpawnDone :
        /\ outcome[d].hash \in before.failed
        /\ outcome[d].hash \in DOMAIN running
    /\ \E d \in SpawnFailed : outcome[d].hash \notin DOMAIN running

\* C12 as claimed: once a pass has exit-checked any entry, it has signaled
\* every stale entry.
C12_Original ==
    (listed = "ok" /\ pc \in {"retain", "done"} /\ waited # EmptyMap) =>
        StaleChildren \subseteq signaled
\* C12, amended: the signal to a stale entry is sent before the exit check of
\* that same entry (between the two, neither that entry nor another is
\* exit-checked); entries are signaled and exit-checked one after the other,
\* so an entry may be exit-checked before another stale entry is signaled.
C12_SignalBeforeOwnCheck ==
    listed = "ok" =>
        /\ \A p \in DOMAIN waited : p \in StaleChildren => p \in signaled
        /\ cursor # NoKey =>
               /\ running[cursor] \in signaled
               /\ running[cursor] \notin DOMAIN waited
        /\ signaled \ DOMAIN waited \subseteq
               IF cursor = NoKey THEN {} ELSE {running[cursor]}
\* A stale entry has just been signaled, after the exit check of another
\* entry and before its own.
C12_Witness ==
    /\ pc = "retain"
    /\ cursor # NoKey
    /\ waited # EmptyMap
    /\ running[cursor] \in signaled
    /\ running[cursor] \notin DOMAIN waited

\* C13: an entry whose try_wait returns an error stays in the map with its
\* child, whether it is desired or stale; the pass still exit-checks every
\* entry of the map and returns Ok.
C13_WaitErrorKeepsEntry ==
    DoneListed =>
        /\ result = "Ok"
        /\ DOMAIN waited = Values(start) \cup spawned
        /\ \A p \in DOMAIN waited :
               waited[p] = "err" => Cardinality(KeysOf(p)) = 1
        /\ \A h \in DOMAIN start :
               waited[start[h]] = "err" => (h \in DOMAIN running /\ running[h] = start[h])
\* try_wait failed on a stale entry and on a desired one: both are kept.
C13_Witness ==
    /\ DoneListed
    /\ result = "Ok"
    /\ \E h \in DOMAIN start \ cur :
           waited[start[h]] = "err" /\ h \in DOMAIN running
    /\ \E h \in DOMAIN start \cap cur :
           waited[start[h]] = "err" /\ h \in DOMAIN running

\* C14: a stale entry whose kill failed is exit-checked all the same, in the
\* same pass: right after the failed kill its try_wait is still to come, and
\* when the pass has returned the entry is out of the map if try_wait
\* reported the exit and in it, with its child, if not.
C14_KillFailureStillChecked ==
    /\ (cursor # NoKey /\ running[cursor] \in killFailed) =>
           (cursor \in visit /\ running[cursor] \notin DOMAIN waited)
    /\ DoneListed =>
           \A h \in DOMAIN start :
               start[h] \in killFailed =>
                   /\ start[h] \in signaled
                   /\ start[h] \in DOMAIN waited
                   /\ waited[start[h]] = "dead" => h \notin DOMAIN running
                   /\ waited[start[h]] # "dead" =>
                          (h \in DOMAIN running /\ running[h] = start[h])
\* kill failed for two stale entries: the one that had exited was removed,
\* the one still running was kept.
C14_Witness ==
    /\ DoneListed
    /\ \E h \in DOMAIN start :
           /\ start[h] \in killFailed
           /\ waited[start[h]] = "dead"
           /\ h \notin DOMAIN running
    /\ \E h \in DOMAIN start :
           /\ start[h] \in killFailed
           /\ waited[start[h]] = "alive"
           /\ h \in DOMAIN running

\* C15: two fingerprints are equal exactly if path and content are both the
\* same; the digest of a file does not depend on how its reads went (it is
\* the digest of the path, 0, the path's length, 0, the content, 0, the
\* content's length); and equality looks at the digest, not at the path kept
\* with it.
C15_FingerprintIdentity ==
    Fingerprinted =>
        /\ fp.sb.ok
        /\ fp.sa.ok => (ShashEq(fp.sa, fp.sb) <=> fp.a = fp.b)
        /\ fp.sa.ok => fp.sa.hash = Sha256(Frame(fp.a[1], fp.a[2]))
        /\ fp.sb.hash = Sha256(Frame(fp.b[1], fp.b[2]))
        /\ ShashEq([fp.sb EXCEPT !.path = fp.a[1]], fp.sb)
\* Path and content swapped, one of them holding a zero byte: the
\* fingerprints differ.
C15_Witness ==
    /\ Fingerprinted
    /\ fp.a = <<(<<0>>), <<>> >>
    /\ fp.b = << <<>>, <<0>> >>
    /\ fp.sa.ok
    /\ ~ShashEq(fp.sa, fp.sb)

\* A child the last pass signaled and left in the map, stale again in this
\* pass, is signaled again, and is left in the map again unless try_wait
\* reports its exit.
C16_SignaledAgain ==
    DoneListed =>
        \A h \in DOMAIN start :
            (start[h] \in before.signaled /\ h \notin cur) =>
                /\ start[h] \in signaled
                /\ waited[start[h]] # "dead" =>
                       (h \in DOMAIN running /\ running[h] = start[h])
\* The step that sends a signal leaves every process as it is: the signal is
\* one the process may outlive (SIGTERM), and the same in every pass.
C16_NoForcedKill == signaled' # signaled => proc' = proc
\* C16: the reconciler never escalates. The only signal is SIGTERM, which
\* does not itself end the process; a stale process that has not exited stays
\* in the map and is sent the signal again by every later pass that lists the
\* root and does not find its fingerprint, for as long as it runs.
C16_NoEscalation == [](C16_SignaledAgain) /\ [][C16_NoForcedKill]_vars
\* A stale child signaled by the last pass is still running, has been
\* signaled again by this pass and is still in the map.
C16_Witness ==
    /\ DoneListed
    /\ \E h \in DOMAIN start \ cur :
        /\ start[h] \in before.signaled
        /\ start[h] \in signaled
        /\ proc[start[h]] = "running"
        /\ h \in DOMAIN running

\* C17: every pass that has begun returns, whatever the children do (no
\* fairness is assumed of ChildExit: a child may ignore the signal and may
\* never exit); after a pass, failed or not, the driver sleeps and begins
\* the next one.
C17_PassesTerminate ==
    /\ (pc \in {"scan", "retain"}) ~> (pc = "done")
    /\ (pc = "done" /\ result = "Ok") ~> (pc = "idle")
    /\ (pc = "done" /\ result = "ReadDir") ~> (pc = "idle")
    /\ (pc = "idle") ~> (pc \in {"scan", "done"})
\* A pass has returned although the stale child it signaled is still running,
\* and so is a desired one.
C17_Witness ==
    /\ Done
    /\ result = "Ok"
    /\ \E h \in DOMAIN running :
           running[h] \in signaled /\ proc[running[h]] = "running"
    /\ \E h \in DOMAIN running \cap cur : proc[running[h]] = "running"

\* C18: exit checks come after every spawn decision of the pass. A desired
\* fingerprint that was tracked when the pass began is found present and gets
\* no spawn in it; when try_wait reports its child's exit the entry is
\* removed, and the pass returns with the fingerprint desired and untracked.
\* A key is in the map after a pass only if it was there before or an entry's
\* spawn succeeded in the pass.
C18_ExitedNotRespawned ==
    /\ pc = "scan" => waited = EmptyMap
    /\ DoneListed =>
           /\ \A d \in DOMAIN outcome :
                  outcome[d].hash \in DOMAIN start =>
                      (outcome[d].res = "present" /\ outcome[d].pid = start[outcome[d].hash])
           /\ \A h \in DOMAIN start \cap cur :
                  waited[start[h]] = "dead" => h \notin DOMAIN running
           /\ DOMAIN running \ DOMAIN start \subseteq {outcome[d].hash : d \in SpawnDone}
\* A pass has returned with a fingerprint that is on disk, was tracked and is
\* desired, and has no entry: its child had exited on its own.
C18_Witness ==
    /\ DoneListed
    /\ \E h \in DOMAIN start \cap cur :
        /\ h \in OnDisk
        /\ start[h] \notin signaled
        /\ waited[start[h]] = "dead"
        /\ h \notin DOMAIN running

\* The keys tracked at the start of the pass for the run path of entry d.
OldKeys(d) == {h \in DOMAIN start : DirOf(h) = d}

\* C19: every spawn of a pass comes before every signal of it (no signal has
\* been sent while the entries are processed). When a pass spawns the new
\* fingerprint of a run path that had another fingerprint tracked, the old
\* child is signaled in that pass, after the spawn, and stays in the map next
\* to the new one unless try_wait reports its exit: one child per
\* fingerprint, and more than one per run path.
C19_SpawnBeforeSignal ==
    /\ pc = "scan" => (signaled = {} /\ waited = EmptyMap /\ cursor = NoKey)
    /\ pc \in {"retain", "done"} => todo = {}
    /\ DoneListed =>
           \A d \in SpawnDone : \A h \in OldKeys(d) :
               /\ h # outcome[d].hash
               /\ start[h] # outcome[d].pid
               /\ start[h] \in signaled
               /\ outcome[d].pid \notin signaled
               /\ waited[start[h]] # "dead" =>
                      (h \in DOMAIN running /\ running[h] = start[h])
\* The content of a tracked run file has changed: the pass has spawned the
\* new version and signaled the old one, both are running and both are in
\* the map.
C19_Witness ==
    /\ DoneListed
    /\ \E d \in SpawnDone : \E h \in OldKeys(d) :
        /\ d \in DOMAIN runs
        /\ start[h] \in signaled
        /\ proc[start[h]] = "running"
        /\ proc[outcome[d].pid] = "running"
        /\ h \in DOMAIN running
        /\ outcome[d].hash \in DOMAIN running

\* An entry whose try_wait reported the exit left the map in that step: no
\* child whose status was collected is a value of the map.
C20_ReapedUntracked ==
    /\ \A p \in DOMAIN proc : proc[p] = "reaped" => p \notin Values(running)
    /\ \A p \in DOMAIN waited :
           waited[p] = "dead" => (proc[p] = "reaped" /\ p \notin Values(running))
\* A step that sends a signal sends it to a child of the map that was spawned
\* by the reconciler, whose status has not been collected and whose exit
\* check in this pass is still to come.
C20_SignalTarget ==
    \A p \in signaled' \ signaled :
        /\ p \in Values(running)
        /\ p \in DOMAIN proc
        /\ proc[p] # "reaped"
        /\ p \notin DOMAIN waited
\* C20: a signal is only ever sent to the pid of a child the reconciler
\* spawned and has not reaped.
C20_SignalOnlyUnreaped == [](C20_ReapedUntracked) /\ [][C20_SignalTarget]_vars
\* A stale child that had exited was signaled (its pid still its own), then
\* reaped and removed by the same pass.
C20_Witness ==
    /\ DoneListed
    /\ \E p \in signaled :
        /\ p \in zombies
        /\ waited[p] = "dead"
        /\ proc[p] = "reaped"
        /\ p \notin Values(running)

=============================================================================
